---------------------------- MODULE Spec2Model ----------------------------
(***************************************************************************)
(* A model of the tutoring assistant: the single-subject variant           *)
(* (src/src/app.py, class Me) and the generalized variant                  *)
(* (src/src/generic-teacher.py, class SubjectTeacherAgent).                *)
(*                                                                         *)
(* Texts are sequences of characters.  A character is a one-character      *)
(* string, except the characters a TLA+ string literal cannot hold, which  *)
(* are named (BACKTICK, DQUOTE, BULLET, ENDASH), and the literal           *)
(* "English meaning:", which the sanitizer matches as a whole and which is *)
(* one token here (LABEL): its letters, its colon and its single inner     *)
(* space are ordinary characters to every other pattern.                   *)
(***************************************************************************)
EXTENDS Integers, Sequences, FiniteSets, TLC

VARIABLES
    variant,        \* which program runs: "app" or "generic"
    files,          \* the document store: the paths that exist
    pc,             \* position of the process
    subject,        \* chat's argument (generic)
    chapter_number, \* chat's argument (generic)
    messages,       \* chat's local list: the transcript
    response,       \* chat's local: the last response of the chat endpoint
    response_text,  \* chat's local, set after the loop
    returned,       \* what chat returned to the caller, NoValue before
    raised,         \* the exception that left chat, NoValue if none
    state,          \* the UI's gr.State value (generic), NoValue at start
    modelCalls,     \* number of calls of chat.completions.create, this chat
    finishes,       \* the finish reasons the endpoint answered, this chat
    executed,       \* the tools executed by this chat, in order
    notified,       \* outcomes of the notification POSTs of this chat
    invocations,    \* number of chat invocations so far
    text,           \* sanitation: a text to sanitize
    once,           \* sanitation: clean_text_for_audio(text)
    twice           \* sanitation: clean_text_for_audio(once)

vars == <<variant, files, pc, subject, chapter_number, messages, response,
          response_text, returned, raised, state, modelCalls, finishes,
          executed,
          notified, invocations, text, once, twice>>

NoValue == "None"

-----------------------------------------------------------------------------
(* Characters *)

NL == "\n"
SP == " "
TAB == "\t"
BACKTICK == "BACKTICK"
DQUOTE == "DQUOTE"
SQUOTE == "'"
BULLET == "BULLET"
ENDASH == "ENDASH"
LABEL == "English meaning:"

Whitespace == {SP, NL, TAB}
Digits == {"0", "1", "2", "3", "4", "5", "6", "7", "8", "9"}

\* The characters of s.
Chars(s) == {s[i] : i \in 1..Len(s)}

\* The suffix of s from index i on (1-based), empty when i > Len(s).
From(s, i) == SubSeq(s, i, Len(s))

\* Length of the longest prefix of s whose characters are all in set.
RECURSIVE RunLength(_, _)
RunLength(s, set) ==
    IF s = <<>> \/ Head(s) \notin set THEN 0
    ELSE 1 + RunLength(Tail(s), set)

\* re.sub of an alternation of two-character and one-character literals by
\* '': a left-to-right scan, the two-character alternatives tried first.
RECURSIVE StripMarkers(_, _, _)
StripMarkers(s, pairs, singles) ==
    IF s = <<>> THEN <<>>
    ELSE IF Len(s) >= 2 /\ SubSeq(s, 1, 2) \in pairs
         THEN StripMarkers(From(s, 3), pairs, singles)
    ELSE IF Head(s) \in singles
         THEN StripMarkers(Tail(s), pairs, singles)
    ELSE <<Head(s)>> \o StripMarkers(Tail(s), pairs, singles)

MarkerPairs == {<<"*", "*">>, <<"_", "_">>, <<"~", "~">>}

\* re.sub(r'[\"\'\[\]\(\)]', '', text)
RemoveQuotesAndBrackets(s) ==
    SelectSeq(s, LAMBDA c : c \notin {DQUOTE, SQUOTE, "[", "]", "(", ")"})

\* re.sub(r'\s{2,}', ' ', text): a run of two or more whitespace characters
\* becomes one space; a single whitespace character stays as it is.
RECURSIVE CollapseWhitespace(_)
CollapseWhitespace(s) ==
    IF s = <<>> THEN <<>>
    ELSE LET n == RunLength(s, Whitespace) IN
         IF n >= 2 THEN <<SP>> \o CollapseWhitespace(From(s, n + 1))
         ELSE <<Head(s)>> \o CollapseWhitespace(Tail(s))

\* str.strip()
RECURSIVE StripLeft(_)
StripLeft(s) ==
    IF s # <<>> /\ Head(s) \in Whitespace THEN StripLeft(Tail(s)) ELSE s

RECURSIVE StripRight(_)
StripRight(s) ==
    IF s # <<>> /\ s[Len(s)] \in Whitespace
    THEN StripRight(SubSeq(s, 1, Len(s) - 1)) ELSE s

Strip(s) == StripRight(StripLeft(s))

\* re.sub(r'\([^()\n]+\)', '', text)
RECURSIVE RemoveParentheticals(_)
RemoveParentheticals(s) ==
    IF s = <<>> THEN <<>>
    ELSE LET inner == RunLength(Tail(s), Chars(s) \ {"(", ")", NL})
         IN  IF Head(s) = "(" /\ inner >= 1 /\ Len(s) >= inner + 2
                /\ s[inner + 2] = ")"
             THEN RemoveParentheticals(From(s, inner + 3))
             ELSE <<Head(s)>> \o RemoveParentheticals(Tail(s))

\* Index of the first NL of s at or after index i, Len(s) + 1 if none.
RECURSIVE LineEnd(_, _)
LineEnd(s, i) ==
    IF i > Len(s) \/ s[i] = NL THEN i ELSE LineEnd(s, i + 1)

\* Where a match of (\d+\.\s*)([^\n]+) that starts at the head of s ends,
\* 0 if there is none.  \d+ and \s* are greedy; when the whitespace run
\* reaches the end of the text, \s* gives characters back until [^\n]+ can
\* take one (a whitespace character other than NL).  [^\n]+ then runs to
\* the end of the line.
NumberedItemEnd(s) ==
    LET d == RunLength(s, Digits)
        j == d + 2
        w == RunLength(From(s, j), Whitespace)
        back == {k \in 0..(w - 1) : s[j + k] # NL}
        maxBack == CHOOSE k \in back : \A m \in back : m <= k
    IN  IF d = 0 \/ Len(s) < d + 1 \/ s[d + 1] # "." THEN 0
        ELSE IF j + w <= Len(s) THEN LineEnd(s, j + w) - 1
        ELSE IF back # {} THEN LineEnd(s, j + maxBack) - 1
        ELSE 0

\* re.sub(r'(\d+\.\s*)([^\n]+)', r'\1\2.', text)
RECURSIVE PunctuateNumberedItems(_)
PunctuateNumberedItems(s) ==
    IF s = <<>> THEN <<>>
    ELSE LET e == NumberedItemEnd(s) IN
         IF e > 0
         THEN SubSeq(s, 1, e) \o <<".">> \o PunctuateNumberedItems(From(s, e + 1))
         ELSE <<Head(s)>> \o PunctuateNumberedItems(Tail(s))

\* re.sub(r'(English meaning:.*?)\n', r'\1. ', text)
RECURSIVE PunctuateMeaningLines(_)
PunctuateMeaningLines(s) ==
    IF s = <<>> THEN <<>>
    ELSE LET e == LineEnd(s, 1) IN
         IF Head(s) = LABEL /\ e <= Len(s)
         THEN SubSeq(s, 1, e - 1) \o <<".", SP>>
              \o PunctuateMeaningLines(From(s, e + 1))
         ELSE <<Head(s)>> \o PunctuateMeaningLines(Tail(s))

\* re.sub(r'\n\s*[\*\-•]\s*', r'. ', text)
RECURSIVE PauseBeforeBullets(_)
PauseBeforeBullets(s) ==
    IF s = <<>> THEN <<>>
    ELSE LET w == RunLength(Tail(s), Whitespace)
             b == w + 2
             after == RunLength(From(s, b + 1), Whitespace)
         IN  IF Head(s) = NL /\ b <= Len(s) /\ s[b] \in {"*", "-", BULLET}
             THEN <<".", SP>> \o PauseBeforeBullets(From(s, b + after + 1))
             ELSE <<Head(s)>> \o PauseBeforeBullets(Tail(s))

\* text.replace('\n', ' ')
ReplaceNewlines(s) == [i \in 1..Len(s) |-> IF s[i] = NL THEN SP ELSE s[i]]

\* clean_text_for_audio of app.py
CleanApp(s) ==
    Strip(CollapseWhitespace(RemoveQuotesAndBrackets(
        StripMarkers(s, MarkerPairs, {BACKTICK}))))

\* clean_text_for_audio of generic-teacher.py
CleanGeneric(s) ==
    Strip(ReplaceNewlines(CollapseWhitespace(PauseBeforeBullets(
        PunctuateMeaningLines(PunctuateNumberedItems(RemoveParentheticals(
            StripMarkers(s, MarkerPairs, {"*", BACKTICK, ENDASH, "-"}))))))))

clean_text_for_audio(v, s) == IF v = "app" THEN CleanApp(s) ELSE CleanGeneric(s)

-----------------------------------------------------------------------------
(* Values *)

Variants == {"app", "generic"}

\* Python values a tool yields, and json.dumps of each.
RecordedOk == "dict(recorded='ok')"
EmptyDict == "dict()"

json_dumps(value) ==
    CASE value = RecordedOk -> "{recorded: ok}"
      [] value = EmptyDict -> "{}"
      [] value = NoValue -> "null"

\* The arguments payloads the scripted model sends, as JSON text, and
\* json.loads of each: the parse fails, or yields a value that is an object
\* with these keys or is no object.
MalformedJson == "{question: "
JsonTexts == {"{}", "{email: a@b.com}", "{question: q}", "{text: t}", "[]",
              MalformedJson}

json_loads(payload) ==
    CASE payload = "{}" -> [ok |-> TRUE, object |-> TRUE, keys |-> {}]
      [] payload = "{email: a@b.com}" ->
            [ok |-> TRUE, object |-> TRUE, keys |-> {"email"}]
      [] payload = "{question: q}" ->
            [ok |-> TRUE, object |-> TRUE, keys |-> {"question"}]
      [] payload = "{text: t}" ->
            [ok |-> TRUE, object |-> TRUE, keys |-> {"text"}]
      [] payload = "[]" -> [ok |-> TRUE, object |-> FALSE, keys |-> {}]
      [] OTHER -> [ok |-> FALSE, object |-> FALSE, keys |-> {}]

\* The two tools the model is told about (the list tools).
RegisteredTools == {"record_user_details", "record_unknown_question"}

\* Module-level symbols of app.py, as globals() sees them: a function with
\* its required and optional parameters, whether it posts a notification and
\* what it returns; or an object that cannot be called.
Function(required, optional, notifies, result) ==
    [callable |-> TRUE, required |-> required, optional |-> optional,
     notifies |-> notifies, result |-> result]

NotCallable ==
    [callable |-> FALSE, required |-> {}, optional |-> {},
     notifies |-> FALSE, result |-> NoValue]

AppGlobals ==
    [name \in {"record_user_details", "record_unknown_question", "push",
               "tools", "record_user_details_json", "json"} |->
        CASE name = "record_user_details" ->
                Function({"email"}, {"name", "notes"}, TRUE, RecordedOk)
          [] name = "record_unknown_question" ->
                Function({"question"}, {}, TRUE, RecordedOk)
          [] name = "push" -> Function({"text"}, {}, TRUE, NoValue)
          [] OTHER -> NotCallable]

\* Outcomes of requests.post in push: the request is answered (whatever the
\* status, which push does not read), or requests raises.
PostOutcomes == {"status 200", "status 500", "raises"}

NoException == [exc |-> NoValue, name |-> NoValue, arguments |-> NoValue]
Exception(exc) == [exc |-> exc, name |-> NoValue, arguments |-> NoValue]
ToolException(exc, tool_call) ==
    [exc |-> exc, name |-> tool_call.name, arguments |-> tool_call.arguments]

\* Transcript messages.  content is a sequence of strings throughout.
Message(role, content) ==
    [role |-> role, content |-> content, tool_call_id |-> NoValue,
     tool_calls |-> <<>>, type |-> "dict"]

\* response.choices[0].message of a response that requests tools.
AssistantToolCallMessage(resp) ==
    [role |-> "assistant", content |-> resp.content, tool_call_id |-> NoValue,
     tool_calls |-> resp.tool_calls, type |-> "ChatCompletionMessage"]

\* A tool result correlated by the tool's name instead of the call's id.
ToolResultMessageByName(tool_call, result) ==
    [role |-> "tool", content |-> <<json_dumps(result)>>,
     tool_call_id |-> tool_call.name, tool_calls |-> <<>>, type |-> "dict"]

\* {"role": "tool", "content": json.dumps(result), "tool_call_id": tool_call.id}
ToolResultMessage(tool_call, result) ==
    [role |-> "tool", content |-> <<json_dumps(result)>>,
     tool_call_id |-> tool_call.id, tool_calls |-> <<>>, type |-> "dict"]

NoResponse == [finish_reason |-> NoValue, content |-> <<>>, tool_calls |-> <<>>]
NoReturn == [text |-> <<>>, audio |-> NoValue, messages |-> <<>>,
             formatted |-> <<>>]

-----------------------------------------------------------------------------
(* Tool dispatch *)

\* tool(**arguments) of app.py, for a tool that globals() holds.
ApplyTool(tool, tool_call, parsed, post) ==
    IF \/ ~parsed.object
       \/ ~tool.callable
       \/ ~(tool.required \subseteq parsed.keys)
       \/ ~(parsed.keys \subseteq tool.required \cup tool.optional)
    THEN [raised |-> ToolException("TypeError", tool_call), result |-> NoValue,
          executed |-> <<>>, notified |-> <<>>]
    ELSE IF tool.notifies /\ post = "raises"
    THEN [raised |-> ToolException("ConnectionError", tool_call),
          result |-> NoValue, executed |-> <<tool_call.name>>,
          notified |-> <<post>>]
    ELSE [raised |-> NoException, result |-> tool.result,
          executed |-> <<tool_call.name>>,
          notified |-> IF tool.notifies THEN <<post>> ELSE <<>>]

\* globals().get(tool_name) found something truthy.
ToolFound(tool_name) == tool_name \in DOMAIN AppGlobals

\* The body of handle_tool_call's loop for one tool call.
ToolStep(v, tool_call, post) ==
    LET parsed == json_loads(tool_call.arguments) IN
    IF ~parsed.ok
    THEN [raised |-> ToolException("JSONDecodeError", tool_call),
          result |-> NoValue, executed |-> <<>>, notified |-> <<>>]
    ELSE IF v = "generic"
    THEN [raised |-> NoException, result |-> RecordedOk,
          executed |-> <<>>, notified |-> <<>>]
    ELSE IF ToolFound(tool_call.name)
    THEN ApplyTool(AppGlobals[tool_call.name], tool_call, parsed, post)
    ELSE [raised |-> NoException, result |-> EmptyDict,
          executed |-> <<>>, notified |-> <<>>]

NoHandling == [raised |-> NoException, results |-> <<>>, executed |-> <<>>,
               notified |-> <<>>]

\* handle_tool_call: the results so far are acc.results; posts[i] is the
\* outcome of the notification POST of the i-th call, should it post.
RECURSIVE handle_tool_call(_, _, _, _)
handle_tool_call(v, tool_calls, posts, acc) ==
    LET i == Len(acc.results) + 1 IN
    IF i > Len(tool_calls) THEN acc
    ELSE LET step == ToolStep(v, tool_calls[i], posts[i])
             failed == step.raised.exc # NoValue
             next == [raised |-> step.raised,
                      results |-> IF failed THEN acc.results
                                  ELSE Append(acc.results,
                                        ToolResultMessage(tool_calls[i], step.result)),
                      executed |-> acc.executed \o step.executed,
                      notified |-> acc.notified \o step.notified]
         IN  IF failed THEN next
             ELSE handle_tool_call(v, tool_calls, posts, next)

\* Whether the i-th call reaches requests.post.
Posts(v, tool_call) ==
    /\ v = "app"
    /\ ToolFound(tool_call.name)
    /\ AppGlobals[tool_call.name].notifies

\* The POST outcomes to consider for a list of tool calls.
PostSequences(v, tool_calls, outcomes) ==
    {posts \in [1..Len(tool_calls) -> outcomes \cup {"status 200"}] :
        \A i \in 1..Len(tool_calls) :
            ~Posts(v, tool_calls[i]) => posts[i] = "status 200"}

-----------------------------------------------------------------------------
(* Content loader and prompt builder *)

\* subject.lower() of the subjects the UI offers.
Lower(subj) ==
    CASE subj = "Hindi" -> "hindi"
      [] subj = "Math" -> "math"
      [] subj = "Science" -> "science"
      [] OTHER -> subj

\* f"content/{subject.lower()}/chapter{chapter_number}.pdf"
ChapterPath(subj, chap) == <<"content", Lower(subj), "chapter", chap, ".pdf">>

\* A loader that does not look whether the path exists.
PathAssumedToExist(path, fs) == TRUE

\* os.path.exists(path)
PathExists(path, fs) == path \in fs

\* f"No content found for subject: {subject} Chapter {chapter_number}."
NotFoundText(subj, chap) ==
    <<"No content found for subject: ", subj, " Chapter ", chap, ".">>

\* PdfReader(path) and the concatenation of its pages' texts.
PdfText(path, fs) ==
    IF path \in fs
    THEN [exc |-> NoValue, content |-> <<"text of">> \o path]
    ELSE [exc |-> "FileNotFoundError", content |-> <<>>]

load_pdf_content(subj, chap, fs) ==
    LET path == ChapterPath(subj, chap) IN
    IF ~PathExists(path, fs)
    THEN [exc |-> NoValue, content |-> NotFoundText(subj, chap)]
    ELSE PdfText(path, fs)

\* SubjectTeacherAgent.system_prompt
system_prompt(subj, chap, chapter_content) ==
    <<"CBSE Grade 2 Teacher of", subj, "chapter number", chap,
      "## Chapter Content:">> \o chapter_content

\* Me.system_prompt: the Hindi persona and self.hindiChapterOne.
AppSystemPrompt ==
    <<"CBSE Grade 2 Hindi Teacher", "## Chatper One Content:",
      "text of", "content/hindi/bhsr101.pdf">>

\* role.capitalize()
Capitalize(role) ==
    CASE role = "system" -> "System"
      [] role = "user" -> "User"
      [] role = "assistant" -> "Assistant"
      [] role = "tool" -> "Tool"

\* format_history: msg["role"] raises on a message that is no dict.
format_history(history) ==
    IF \E i \in 1..Len(history) : history[i].type # "dict"
    THEN [exc |-> "TypeError", formatted |-> <<>>]
    ELSE [exc |-> NoValue,
          formatted |-> [i \in 1..Len(history) |->
                            <<Capitalize(history[i].role)>> \o history[i].content]]

-----------------------------------------------------------------------------
(* Bounds and input sets *)

MaxInvocations == 2   \* chat invocations of a session (Spec)
MaxRounds == 2        \* tool-call rounds of a chat (Spec)
MaxCalls == 2         \* tool calls of a response
MaxToolRounds == 1    \* tool-call rounds of a chat (SpecTools)
MaxTextLen == 3       \* characters of a text to sanitize (SpecClean)

Subjects == {"Hindi", "Math"}
Chapters == {"1"}
UserMessages == {"hi"}
CallIds == {"call_a", "call_b"}

\* The document stores considered: any set of the chapters' paths.
FileSystems == SUBSET {ChapterPath(subj, chap) : subj \in Subjects, chap \in Chapters}

\* Final answers: plain text, text with markers, text that is only a marker.
FinalContents == {<<"a">>, <<"*", "a", "*">>, <<BACKTICK>>}
FinalFinishReasons == {"stop", "length"}

SeqsUpTo(set, n) == UNION {[1..k -> set] : k \in 0..n}

ToolCalls(names, payloads) ==
    [id : CallIds, name : names, arguments : payloads]

\* Responses that request the tool calls of a list.
ToolResponses(tool_calls) ==
    {[finish_reason |-> "tool_calls", content |-> <<>>, tool_calls |-> calls] :
        calls \in SeqsUpTo(tool_calls, MaxCalls)}

FinalResponses ==
    [finish_reason : FinalFinishReasons, content : FinalContents, tool_calls : {<<>>}]

\* Spec: well-formed calls of one registered tool.
PlainToolCalls == ToolCalls({"record_unknown_question"}, {"{question: q}"})

\* SpecTools: registered tools, other module-level symbols, a name that is
\* no symbol; payloads that fit, do not fit, are no object, do not parse.
RequestedNames == {"record_user_details", "record_unknown_question", "push",
                   "tools", "lookup_weather"}
AnyToolCalls == ToolCalls(RequestedNames, JsonTexts)

SampleChars == {"*", BACKTICK, "(", ")", "1", ".", SP, NL, BULLET, "a"}

-----------------------------------------------------------------------------
(* The program *)

\* Number of tool-call rounds the endpoint has asked for in this chat.
Rounds == Cardinality({i \in 1..Len(finishes) : finishes[i] = "tool_calls"})

\* A loop with a cap on its rounds: one round, then it stops whatever the
\* model asks for.
RequestsToolsUnderCap(resp) == resp.finish_reason = "tool_calls" /\ Rounds < 1

\* response.choices[0].finish_reason == "tool_calls"
RequestsTools(resp) == resp.finish_reason = "tool_calls"

\* The final text taken after sanitation instead of before.
FinalTextSanitized(resp) == clean_text_for_audio(variant, resp.content)

\* response.choices[0].message.content
FinalText(resp) == resp.content

\* chat, up to the loop: the arguments, the chapter content, the prompt and
\* the message list.  app.py's UI passes the message alone, so its history is
\* None; generic-teacher.py's UI passes its gr.State, which is None at first
\* and the messages chat last returned afterwards.
StartChat(subj, chap, msg) ==
    /\ pc \in {"idle", "returned", "raised"}
    /\ invocations' = invocations + 1
    /\ modelCalls' = 0
    /\ finishes' = <<>>
    /\ executed' = <<>>
    /\ notified' = <<>>
    /\ response' = NoResponse
    /\ response_text' = <<>>
    /\ returned' = NoReturn
    /\ IF variant = "app"
       THEN /\ subject' = NoValue
            /\ chapter_number' = NoValue
            /\ messages' = <<Message("system", AppSystemPrompt),
                             Message("user", <<msg>>)>>
            /\ raised' = NoException
            /\ pc' = "AWAITING_MODEL"
       ELSE LET loaded == load_pdf_content(subj, chap, files) IN
            /\ subject' = subj
            /\ chapter_number' = chap
            /\ IF loaded.exc # NoValue
               THEN /\ messages' = <<>>
                    /\ raised' = Exception(loaded.exc)
                    /\ pc' = "raised"
               ELSE /\ messages' =
                         <<Message("system", system_prompt(subj, chap, loaded.content))>>
                         \o state \o <<Message("user", <<msg>>)>>
                    /\ raised' = NoException
                    /\ pc' = "AWAITING_MODEL"
    /\ UNCHANGED <<variant, files, state, text, once, twice>>

\* One iteration of chat's loop: the call of the chat endpoint, which answers
\* resp, and the branch on its finish reason.
LoopIteration(resp, posts) ==
    /\ pc = "AWAITING_MODEL"
    /\ modelCalls' = modelCalls + 1
    /\ finishes' = Append(finishes, resp.finish_reason)
    /\ response' = resp
    /\ IF RequestsTools(resp)
       THEN LET handled == handle_tool_call(variant, resp.tool_calls, posts, NoHandling) IN
            /\ executed' = executed \o handled.executed
            /\ notified' = notified \o handled.notified
            /\ IF handled.raised.exc # NoValue
               THEN /\ raised' = handled.raised
                    /\ pc' = "raised"
                    /\ UNCHANGED messages
               ELSE /\ messages' =
                         Append(messages, AssistantToolCallMessage(resp))
                         \o handled.results
                    /\ pc' = "AWAITING_MODEL"
                    /\ UNCHANGED raised
       ELSE /\ pc' = "DONE"
            /\ UNCHANGED <<messages, raised, executed, notified>>
    /\ UNCHANGED <<variant, files, subject, chapter_number, response_text,
                   returned, state, invocations, text, once, twice>>

\* The call of the chat endpoint fails: nothing catches it.
ChatEndpointFails ==
    /\ pc = "AWAITING_MODEL"
    /\ modelCalls' = modelCalls + 1
    /\ raised' = Exception("APIError")
    /\ pc' = "raised"
    /\ UNCHANGED <<variant, files, subject, chapter_number, messages, response,
                   response_text, returned, state, finishes, executed, notified,
                   invocations, text, once, twice>>

\* chat, after the loop: the final text, the sanitation, the synthesis of
\* the audio file (gTTS refuses an empty text; saving goes over the network
\* and either succeeds or raises), the formatted history, the return.
Finish(save) ==
    /\ pc = "DONE"
    /\ LET final == FinalText(response)
           transcript == IF variant = "generic"
                         THEN Append(messages, Message("assistant", final))
                         ELSE messages
           cleaned_text == clean_text_for_audio(variant, final)
           formatted == IF variant = "generic" THEN format_history(transcript)
                        ELSE [exc |-> NoValue, formatted |-> <<>>]
           failure == IF cleaned_text = <<>> THEN "AssertionError"
                      ELSE IF save = "raises" THEN "gTTSError"
                      ELSE formatted.exc
       IN  /\ response_text' = final
           /\ messages' = transcript
           /\ IF failure # NoValue
              THEN /\ raised' = Exception(failure)
                   /\ pc' = "raised"
                   /\ UNCHANGED <<returned, state>>
              ELSE /\ returned' =
                        [text |-> final, audio |-> "tmp.mp3",
                         messages |-> IF variant = "generic" THEN transcript ELSE <<>>,
                         formatted |-> formatted.formatted]
                   /\ state' = IF variant = "generic" THEN transcript ELSE state
                   /\ pc' = "returned"
                   /\ UNCHANGED raised
    /\ UNCHANGED <<variant, files, subject, chapter_number, response, modelCalls,
                   finishes, executed, notified, invocations, text, once, twice>>

SaveOutcomes == {"saved", "raises"}

\* The state after construction, before the first message.
InitChat ==
    /\ variant \in Variants
    /\ files \in FileSystems
    /\ pc = "idle"
    /\ subject = NoValue
    /\ chapter_number = NoValue
    /\ messages = <<>>
    /\ response = NoResponse
    /\ response_text = <<>>
    /\ returned = NoReturn
    /\ raised = NoException
    /\ state = <<>>
    /\ modelCalls = 0
    /\ finishes = <<>>
    /\ executed = <<>>
    /\ notified = <<>>
    /\ invocations = 0
    /\ text = <<>>
    /\ once = <<>>
    /\ twice = <<>>

\* One chat; the model asks for well-formed calls of a registered tool, under
\* either call id, any number of them up to MaxCalls, in up to MaxRounds
\* rounds; a notification POST is answered or raises.
Init == InitChat /\ files = {}

Next ==
    \/ \E subj \in {"Hindi"}, chap \in Chapters, msg \in UserMessages :
          invocations = 0 /\ StartChat(subj, chap, msg)
    \/ /\ pc = "AWAITING_MODEL"
       /\ Rounds < MaxRounds
       /\ \E resp \in ToolResponses(PlainToolCalls) :
             \E posts \in PostSequences(variant, resp.tool_calls, {"raises"}) :
                LoopIteration(resp, posts)
    \/ \E resp \in FinalResponses : LoopIteration(resp, <<>>)
    \/ ChatEndpointFails
    \/ \E save \in SaveOutcomes : Finish(save)

Spec == Init /\ [][Next]_vars

\* One chat; the model asks for any tool by any name with any payload.
InitTools == InitChat /\ files = {}

NextTools ==
    \/ \E subj \in {"Hindi"}, chap \in Chapters, msg \in UserMessages :
          invocations = 0 /\ StartChat(subj, chap, msg)
    \/ /\ pc = "AWAITING_MODEL"
       /\ Rounds < MaxToolRounds
       /\ \E resp \in ToolResponses(AnyToolCalls) :
             \E posts \in PostSequences(variant, resp.tool_calls, PostOutcomes) :
                LoopIteration(resp, posts)
    \/ \E resp \in FinalResponses : LoopIteration(resp, <<>>)
    \/ ChatEndpointFails
    \/ \E save \in SaveOutcomes : Finish(save)

SpecTools == InitTools /\ [][NextTools]_vars

\* A session of the UI: up to MaxInvocations chats over any document store,
\* the subject and chapter chosen anew for each; a tool round is one call.
OneCallResponse ==
    [finish_reason |-> "tool_calls", content |-> <<>>,
     tool_calls |-> <<[id |-> "call_a", name |-> "record_unknown_question",
                       arguments |-> "{question: q}"]>>]

InitSession == InitChat

NextSession ==
    \/ \E subj \in Subjects, chap \in Chapters, msg \in UserMessages :
          invocations < MaxInvocations /\ StartChat(subj, chap, msg)
    \/ /\ pc = "AWAITING_MODEL"
       /\ Rounds < MaxRounds
       /\ LoopIteration(OneCallResponse, <<"status 200">>)
    \/ \E resp \in FinalResponses : LoopIteration(resp, <<>>)
    \/ ChatEndpointFails
    \/ \E save \in SaveOutcomes : Finish(save)

SpecSession == InitSession /\ [][NextSession]_vars

-----------------------------------------------------------------------------
(* Sanitation applied to a text, and to its own output *)

InitClean ==
    /\ variant \in Variants
    /\ text \in SeqsUpTo(SampleChars, MaxTextLen)
    /\ once = <<>>
    /\ twice = <<>>
    /\ pc = "idle"
    /\ files = {}
    /\ subject = NoValue
    /\ chapter_number = NoValue
    /\ messages = <<>>
    /\ response = NoResponse
    /\ response_text = <<>>
    /\ returned = NoReturn
    /\ raised = NoException
    /\ state = <<>>
    /\ modelCalls = 0
    /\ finishes = <<>>
    /\ executed = <<>>
    /\ notified = <<>>
    /\ invocations = 0

Sanitize ==
    /\ pc = "idle"
    /\ once' = clean_text_for_audio(variant, text)
    /\ pc' = "sanitized"
    /\ UNCHANGED <<variant, files, subject, chapter_number, messages, response,
                   response_text, returned, raised, state, modelCalls, finishes,
                   executed, notified, invocations, text, twice>>

SanitizeAgain ==
    /\ pc = "sanitized"
    /\ twice' = clean_text_for_audio(variant, once)
    /\ pc' = "sanitized twice"
    /\ UNCHANGED <<variant, files, subject, chapter_number, messages, response,
                   response_text, returned, raised, state, modelCalls, finishes,
                   executed, notified, invocations, text, once>>

NextClean == Sanitize \/ SanitizeAgain

SpecClean == InitClean /\ [][NextClean]_vars

-----------------------------------------------------------------------------
(* Properties *)

\* The positions of the transcript that hold an assistant's tool-call message.
ToolCallMessages ==
    {i \in 1..Len(messages) : messages[i].type = "ChatCompletionMessage"}

\* The loop has been left through its else branch.
AfterLoop ==
    \/ pc \in {"DONE", "returned"}
    \/ /\ pc = "raised"
       /\ raised.name = NoValue
       /\ raised.exc \in {"AssertionError", "gTTSError", "TypeError"}

\* The tool message at distance k after the tool-call message at i.
ResultOf(i, k) == messages[i + k]

\* C1: whenever the model is about to be called again, every tool-call round
\* asked for so far has its assistant message in the transcript, and the
\* messages right after each such message are tool messages, one per request
\* of the round, in the requests' order, each carrying its request's call id;
\* no other tool message exists.
C1_ResultsAnswerRequests ==
    /\ pc = "AWAITING_MODEL" => Cardinality(ToolCallMessages) = Rounds
    /\ \A i \in ToolCallMessages :
          LET calls == messages[i].tool_calls IN
          /\ i + Len(calls) <= Len(messages)
          /\ \A k \in 1..Len(calls) :
                /\ ResultOf(i, k).role = "tool"
                /\ ResultOf(i, k).tool_call_id = calls[k].id
          /\ i + Len(calls) < Len(messages)
                => messages[i + Len(calls) + 1].role # "tool"
    /\ \A j \in 1..Len(messages) :
          messages[j].role = "tool" =>
             \E i \in ToolCallMessages :
                i < j /\ j - i <= Len(messages[i].tool_calls)

\* A round of two requests, call_b before call_a, has been resolved and the
\* model is about to be called again.
C1_Witness ==
    /\ pc = "AWAITING_MODEL"
    /\ \E i \in ToolCallMessages :
          /\ Len(messages[i].tool_calls) = 2
          /\ messages[i].tool_calls[1].id = "call_b"
          /\ messages[i].tool_calls[2].id = "call_a"
          /\ ResultOf(i, 1).tool_call_id = "call_b"
          /\ ResultOf(i, 2).tool_call_id = "call_a"

\* The payload fits no call of the named registered tool, is no object, or
\* does not parse.
Malformed(name, payload) ==
    LET parsed == json_loads(payload) IN
    \/ ~parsed.ok
    \/ ~parsed.object
    \/ /\ name \in RegisteredTools
       /\ \/ ~(AppGlobals[name].required \subseteq parsed.keys)
          \/ ~(parsed.keys \subseteq
                 AppGlobals[name].required \cup AppGlobals[name].optional)

\* C2: a request that names no registered tool never makes chat raise (its
\* payload parsing, which is C3's case), and its result in the transcript is
\* the empty object.
C2_UnknownToolGivesEmptyResult ==
    /\ ~(/\ raised.name \notin RegisteredTools \cup {NoValue}
         /\ json_loads(raised.arguments).ok)
    /\ \A i \in ToolCallMessages :
          \A k \in 1..Len(messages[i].tool_calls) :
             messages[i].tool_calls[k].name \notin RegisteredTools
                => ResultOf(i, k).content = <<json_dumps(EmptyDict)>>

\* C3: a request with a malformed arguments payload never makes chat raise.
C3_MalformedArgumentsDoNotRaise ==
    ~(raised.name # NoValue /\ Malformed(raised.name, raised.arguments))

\* C4: a failing notification POST never makes chat raise, and every request
\* of a registered tool that the transcript answers is answered recorded: ok.
C4_NotificationFailureNotSurfaced ==
    /\ raised.exc # "ConnectionError"
    /\ \A i \in ToolCallMessages :
          \A k \in 1..Len(messages[i].tool_calls) :
             messages[i].tool_calls[k].name \in RegisteredTools
                => ResultOf(i, k).content = <<json_dumps(RecordedOk)>>

\* C5: when the first response does not request tools, the loop is left
\* after that one call of the endpoint, no tool message is in the transcript,
\* no tool ran and no notification was posted, and the final text, and the
\* text chat returns, is the response's content as the model gave it.
C5_NoToolsOneRoundTrip ==
    (Len(finishes) >= 1 /\ finishes[1] # "tool_calls") =>
        /\ modelCalls = 1
        /\ Len(finishes) = 1
        /\ pc # "AWAITING_MODEL"
        /\ ToolCallMessages = {}
        /\ \A i \in 1..Len(messages) : messages[i].role # "tool"
        /\ executed = <<>>
        /\ notified = <<>>
        /\ pc \in {"returned", "raised"} => response_text = response.content
        /\ pc = "returned" => returned.text = response.content

\* chat returned a first answer that sanitation would change.
C5_Witness ==
    /\ pc = "returned"
    /\ modelCalls = 1
    /\ returned.text = <<"*", "a", "*">>
    /\ clean_text_for_audio(variant, returned.text) # returned.text

\* C6: while the loop runs, every response so far requested tools; once the
\* loop is left, the last response is the first that did not request tools,
\* every earlier one did and its round is in the transcript, and the endpoint
\* was called once more than there were rounds.
C6_LoopRunsUntilModelStops ==
    /\ pc = "AWAITING_MODEL" =>
          /\ \A i \in 1..Len(finishes) : finishes[i] = "tool_calls"
          /\ modelCalls = Rounds
    /\ AfterLoop =>
          /\ Len(finishes) >= 1
          /\ finishes[Len(finishes)] # "tool_calls"
          /\ \A i \in 1..(Len(finishes) - 1) : finishes[i] = "tool_calls"
          /\ Cardinality(ToolCallMessages) = Rounds
          /\ modelCalls = Rounds + 1

\* The loop was left at the third call, after two rounds.
C6_Witness ==
    /\ pc = "DONE"
    /\ Rounds = 2
    /\ modelCalls = 3

\* C7: when the synthesis of the audio fails, chat returns the final text.
C7_AudioFailureKeepsText ==
    raised.exc \in {"AssertionError", "gTTSError"} =>
        /\ pc = "returned"
        /\ returned.text = response_text

\* C8: in the generalized variant, a chat for a subject and chapter whose
\* path does not exist does not raise in the loader, has the not-found text
\* as the chapter content of its prompt, and enters the loop.
C8_MissingChapterGivesPlaceholder ==
    (/\ variant = "generic"
     /\ invocations > 0
     /\ ChapterPath(subject, chapter_number) \notin files) =>
        /\ raised.exc # "FileNotFoundError"
        /\ pc = "raised" => modelCalls >= 1
        /\ messages # <<>>
        /\ messages[1] =
              Message("system",
                      system_prompt(subject, chapter_number,
                                    NotFoundText(subject, chapter_number)))

\* chat returned an answer for a chapter that the store does not hold.
C8_Witness ==
    /\ variant = "generic"
    /\ pc = "returned"
    /\ subject = "Math"
    /\ ChapterPath(subject, chapter_number) \notin files
    /\ ChapterPath("Hindi", "1") \in files

\* C9: sanitizing sanitized text changes nothing.
C9_SanitationIdempotent ==
    pc = "sanitized twice" => twice = once

\* C10: in the generalized variant, the message list sent to the model holds
\* one system message, the first, with the prompt of this chat's subject and
\* chapter.
C10_OneSystemPrompt ==
    (variant = "generic" /\ pc = "AWAITING_MODEL") =>
        /\ Cardinality({i \in 1..Len(messages) : messages[i].role = "system"}) = 1
        /\ messages[1] =
              Message("system",
                      system_prompt(subject, chapter_number,
                          load_pdf_content(subject, chapter_number, files).content))

=============================================================================
